---- MODULE Spec2Model ----
(***************************************************************************)
(* Model of unicode-language-rs: the data compiler (build.rs) that turns   *)
(* per-language codepoint tokens into the RANGES / TOTALS tables, and the  *)
(* detection engine (src/lib.rs, detect) that scores an input list of      *)
(* codepoint ranges against those tables.                                  *)
(*                                                                         *)
(* u32 values are kept as their two's-complement representative: a small   *)
(* non-negative integer stands for itself, a negative integer r stands for *)
(* the u32 value 2^32 + r (what a wrapping subtraction leaves behind).     *)
(* Wrapping addition and subtraction are then plain integer + and -.       *)
(***************************************************************************)
EXTENDS Integers, Sequences, FiniteSets, TLC

VARIABLES
    token,       \* build.rs: the &str handed to Codepoint::deserialize
    parsed,      \* build.rs: what deserialize returned for token
    pc,          \* "glob" | "emitted" | "aborted" | "parse" | "parsed"
    languages,   \* build.rs main: Vec<Language> collected so far (codepoints only)
    RANGES,      \* data.rs: per language, its ranges as emitted by main
    TOTALS,      \* data.rs: per language, its total as emitted by main
    codepoints,  \* lib.rs detect: the input ranges of the last call
    threshold,   \* lib.rs detect: the threshold of the last call, <<num, den>>
    status,      \* lib.rs detect: "idle" | "returned" | "panicked"
    result       \* lib.rs detect: the Vec<Match> returned by the last call

vars == <<token, parsed, pc, languages, RANGES, TOTALS, codepoints, threshold, status, result>>

(***************************************************************************)
(* Bounds of the model.                                                    *)
(***************************************************************************)
\* largest codepoint that appears in a token or in an input range
MaxCp == 3
\* most tokens in one language file
MaxTokens == 2
\* most language files the glob returns
MaxLanguages == 2
\* most ranges in one detect call
MaxInput == 2
\* thresholds are k / ThresholdDen for k in 0..ThresholdDen
ThresholdDen == 2
\* longest token string of the token-level specification
MaxTokLen == 7

Min(a, b) == IF a <= b THEN a ELSE b
Max(a, b) == IF a >= b THEN a ELSE b

SeqsUpTo(S, n) == UNION {[1..k -> S] : k \in 0..n}

(***************************************************************************)
(* u32 arithmetic on representatives, with the overflow each operation     *)
(* would report under overflow checks.                                     *)
(***************************************************************************)
\* a - b on u32 operands that are both below 2^31
U32Sub(a, b) == [val |-> a - b, ovf |-> a < b]

\* a + b on u32 operands: the true sum reaches 2^32 exactly in these cases
U32Add(a, b) ==
    [val |-> a + b,
     ovf |-> \/ a < 0 /\ b < 0
             \/ a < 0 /\ b >= 0 /\ a + b >= 0
             \/ b < 0 /\ a >= 0 /\ a + b >= 0]

(***************************************************************************)
(* build.rs: impl Deserialize for Codepoint.  A token is the sequence of   *)
(* its characters.                                                         *)
(***************************************************************************)
DigitVal ==
    ("0" :> 0) @@ ("1" :> 1) @@ ("2" :> 2) @@ ("3" :> 3) @@ ("4" :> 4) @@
    ("5" :> 5) @@ ("6" :> 6) @@ ("7" :> 7) @@ ("8" :> 8) @@ ("9" :> 9)

IsDigit(c) == c \in DOMAIN DigitVal

\* s.contains("..")
ContainsSep(s) == \E i \in 1..(Len(s) - 1) : s[i] = "." /\ s[i + 1] = "."

\* s.split(".."): the pieces between non-overlapping ".." found left to right
RECURSIVE SplitFrom(_, _, _, _)
SplitFrom(s, i, cur, acc) ==
    IF i > Len(s) THEN Append(acc, cur)
    ELSE IF i < Len(s) /\ s[i] = "." /\ s[i + 1] = "."
         THEN SplitFrom(s, i + 2, <<>>, Append(acc, cur))
         ELSE SplitFrom(s, i + 1, Append(cur, s[i]), acc)

Split(s) == SplitFrom(s, 1, <<>>, <<>>)

RECURSIVE DecimalValue(_, _)
DecimalValue(ds, acc) ==
    IF ds = <<>> THEN acc
    ELSE DecimalValue(Tail(ds), 10 * acc + DigitVal[Head(ds)])

\* x.parse::<u32>(): an optional leading "+", then one or more decimal digits;
\* anything else (empty, "-", a letter, a stray ".") is an error.  Strings of
\* at most nine digits cannot exceed u32::MAX.
ParseU32(x) ==
    LET ds == IF x # <<>> /\ Head(x) = "+" THEN Tail(x) ELSE x
    IN  IF ds # <<>> /\ \A i \in 1..Len(ds) : IsDigit(ds[i])
        THEN [ok |-> TRUE, val |-> DecimalValue(ds, 0)]
        ELSE [ok |-> FALSE, val |-> 0]

\* Codepoint::deserialize: Ok(Codepoint(lo, hi)) or Err
deserialize(s) ==
    IF ContainsSep(s)
    THEN LET v == [k \in 1..Len(Split(s)) |-> ParseU32(Split(s)[k])]
         IN  IF \A k \in 1..Len(v) : v[k].ok
             THEN [ok |-> TRUE, lo |-> v[1].val, hi |-> v[2].val]
             ELSE [ok |-> FALSE, lo |-> 0, hi |-> 0]
    ELSE LET r == ParseU32(s)
         IN  IF r.ok THEN [ok |-> TRUE, lo |-> r.val, hi |-> r.val]
             ELSE [ok |-> FALSE, lo |-> 0, hi |-> 0]

(***************************************************************************)
(* build.rs: parse_yaml and main.                                          *)
(***************************************************************************)
\* d.codepoints.sort_by_key(|c| c.0): a stable sort, so a range goes behind
\* every range already placed whose lower bound is not larger
RECURSIVE InsertByLower(_, _)
InsertByLower(c, sorted) ==
    IF sorted = <<>> THEN <<c>>
    ELSE IF c[1] < Head(sorted)[1] THEN <<c>> \o sorted
         ELSE <<Head(sorted)>> \o InsertByLower(c, Tail(sorted))

\* a variant that leaves the file's order alone
SortByLowerSkipped(cs, sorted) == sorted \o cs

RECURSIVE SortByLower(_, _)
SortByLower(cs, sorted) ==
    IF cs = <<>> THEN sorted
    ELSE SortByLower(Tail(cs), InsertByLower(Head(cs), sorted))

\* parse_yaml: deserialize every token of the file (any Err makes
\* serde_yaml::from_str fail and the expect panic), then sort
parse_yaml(toks) ==
    LET ds == [k \in 1..Len(toks) |-> deserialize(toks[k])]
    IN  IF \A k \in 1..Len(ds) : ds[k].ok
        THEN [ok |-> TRUE,
              codepoints |-> SortByLower([k \in 1..Len(ds) |-> <<ds[k].lo, ds[k].hi>>], <<>>)]
        ELSE [ok |-> FALSE, codepoints |-> <<>>]

\* |c| c.1 - c.0 + 1
RangeLen(c) ==
    LET d == U32Sub(c[2], c[1])
        e == U32Add(d.val, 1)
    IN  [val |-> e.val, ovf |-> d.ovf \/ e.ovf]

\* codepoints.iter().map(|c| c.1 - c.0 + 1).sum::<u32>()
RECURSIVE SumLens(_, _)
SumLens(cs, acc) ==
    IF cs = <<>> THEN acc
    ELSE LET l == RangeLen(Head(cs))
             s == U32Add(acc.val, l.val)
         IN  SumLens(Tail(cs), [val |-> s.val, ovf |-> acc.ovf \/ l.ovf \/ s.ovf])

Total(cs) == SumLens(cs, [val |-> 0, ovf |-> FALSE])

(***************************************************************************)
(* lib.rs: detect.                                                         *)
(***************************************************************************)
\* cmp::min(input_upper, *range_upper) - cmp::max(input_lower, *range_lower) + 1
OverlapLen(il, iu, rl, ru) ==
    LET d == U32Sub(Min(iu, ru), Max(il, rl))
        e == U32Add(d.val, 1)
    IN  [val |-> e.val, ovf |-> d.ovf \/ e.ovf]

\* the body of `for [range_lower, range_upper] in RANGES[i]` for one input
\* range: add the overlap when the ranges intersect, and break as soon as
\* input_upper <= range_upper
RECURSIVE ScanRanges(_, _, _, _)
ScanRanges(il, iu, rs, acc) ==
    IF rs = <<>> THEN acc
    ELSE LET rl == Head(rs)[1]
             ru == Head(rs)[2]
             o == OverlapLen(il, iu, rl, ru)
             s == U32Add(acc.val, o.val)
             acc1 == IF il <= ru /\ rl <= iu
                     THEN [val |-> s.val, ovf |-> acc.ovf \/ o.ovf \/ s.ovf]
                     ELSE acc
         IN  IF iu <= ru THEN acc1 ELSE ScanRanges(il, iu, Tail(rs), acc1)

\* counts[i] after the loop over the input ranges
RECURSIVE CountFor(_, _, _)
CountFor(cps, rs, acc) ==
    IF cps = <<>> THEN acc
    ELSE CountFor(Tail(cps), rs, ScanRanges(Head(cps)[1], Head(cps)[2], rs, acc))

Counts(cps, ranges) ==
    [i \in 1..Len(ranges) |-> CountFor(cps, ranges[i], [val |-> 0, ovf |-> FALSE])]

(***************************************************************************)
(* f64.  A score is kept as the pair it is the quotient of, num / den with *)
(* both u32 representatives; the value `num as f64 / den as f64` is then   *)
(* one of                                                                  *)
(*   NaN   0 / 0                                                           *)
(*   0     0 / den                                                         *)
(*   tiny  num / (2^32 + den),  num > 0 > den:  below 2^-25                *)
(*   mid   num / den with both small, or (2^32+num) / (2^32+den), which    *)
(*         rounds to exactly 1 + (num - den) / 2^32 for |num|, |den| <= 40 *)
(*   huge  (2^32 + num) / den,  num < 0 < den:  above 2^25                 *)
(*   +inf  num / 0, num # 0                                                *)
(* Within a class two quotients are ordered by cross-multiplication, with  *)
(* 2^32 kept symbolic: W * a + b is ordered by a, then by b.               *)
(***************************************************************************)
Sign(x) == IF x < 0 THEN -1 ELSE IF x > 0 THEN 1 ELSE 0

Lex(a, b) == IF a # 0 THEN Sign(a) ELSE Sign(b)

IsNaN(s) == s.num = 0 /\ s.den = 0

F64Class(s) ==
    IF s.den = 0 THEN 4
    ELSE IF s.num = 0 THEN 0
    ELSE IF s.num > 0 /\ s.den < 0 THEN 1
    ELSE IF s.num < 0 /\ s.den > 0 THEN 3
    ELSE 2

\* a.partial_cmp(&b) for two scores that are not NaN: -1 Less, 0 Equal, 1 Greater
F64Cmp(a, b) ==
    LET ca == F64Class(a)
        cb == F64Class(b)
        cross == a.num * b.den - b.num * a.den
        ea == IF a.num < 0 THEN a.num - a.den ELSE 0
        eb == IF b.num < 0 THEN b.num - b.den ELSE 0
        pa == IF a.num < 0 THEN [num |-> 1, den |-> 1] ELSE a
        pb == IF b.num < 0 THEN [num |-> 1, den |-> 1] ELSE b
    IN  IF ca # cb THEN Sign(ca - cb)
        ELSE IF ca = 0 \/ ca = 4 THEN 0
        ELSE IF ca = 1 THEN Lex(a.num - b.num, cross)
        ELSE IF ca = 3 THEN Lex(b.den - a.den, cross)
        ELSE Lex(pa.num * pb.den - pb.num * pa.den, ea - eb)

\* score >= threshold (false when score is NaN)
F64Ge(s, t) == ~IsNaN(s) /\ F64Cmp(s, t) >= 0

\* threshold <<k, d>> is the f64 nearest to k / d
ThresholdValue(t) == [num |-> t[1], den |-> t[2]]

\* the Match pushed for language i
MakeMatch(i, count, total) ==
    [code |-> i, count |-> count, score |-> [num |-> count, den |-> total]]

\* a variant without the counts[i] > 0 guard
KeepsWithoutCountGuard(count, total, thr) ==
    F64Ge([num |-> count, den |-> total], ThresholdValue(thr))

\* a variant with an exclusive comparison, score > threshold
KeepsStrictly(count, total, thr) ==
    /\ ~IsNaN([num |-> count, den |-> total])
    /\ F64Cmp([num |-> count, den |-> total], ThresholdValue(thr)) > 0
    /\ count # 0

\* score >= threshold && counts[i] > 0
Keeps(count, total, thr) ==
    F64Ge([num |-> count, den |-> total], ThresholdValue(thr)) /\ count # 0

\* the candidates in table order: `for i in 0..LANGUAGE_COUNT { ... result.push }`
RECURSIVE Candidates(_, _, _, _)
Candidates(i, counts, totals, thr) ==
    IF i > Len(counts) THEN <<>>
    ELSE (IF Keeps(counts[i].val, totals[i], thr)
          THEN <<MakeMatch(i, counts[i].val, totals[i])>>
          ELSE <<>>) \o Candidates(i + 1, counts, totals, thr)

\* a variant without the .reverse()
SortCmpAscending(a, b) == F64Cmp(a.score, b.score)

\* the comparator of result.sort_by: a.score.partial_cmp(&b.score).unwrap().reverse()
SortCmp(a, b) == -F64Cmp(a.score, b.score)

\* a variant that is not stable: a match goes in front of its equals
RECURSIVE InsertByScoreUnstable(_, _)
InsertByScoreUnstable(m, sorted) ==
    IF sorted = <<>> THEN <<m>>
    ELSE IF -F64Cmp(m.score, Head(sorted).score) <= 0 THEN <<m>> \o sorted
         ELSE <<Head(sorted)>> \o InsertByScoreUnstable(m, Tail(sorted))

\* Vec::sort_by is stable: a match goes in front of the first placed match it
\* compares Less than, behind everything it compares Equal to
RECURSIVE InsertByScore(_, _)
InsertByScore(m, sorted) ==
    IF sorted = <<>> THEN <<m>>
    ELSE IF SortCmp(m, Head(sorted)) < 0 THEN <<m>> \o sorted
         ELSE <<Head(sorted)>> \o InsertByScore(m, Tail(sorted))

RECURSIVE SortByScore(_, _)
SortByScore(ms, sorted) ==
    IF ms = <<>> THEN sorted
    ELSE SortByScore(Tail(ms), InsertByScore(Head(ms), sorted))

\* detect(codepoints, threshold) on the tables ranges / totals
detect(cps, thr, ranges, totals) ==
    SortByScore(Candidates(1, Counts(cps, ranges), totals, thr), <<>>)

\* some u32 operation of the call overflows
DetectOverflows(cps, ranges) ==
    \E i \in 1..Len(ranges) : Counts(cps, ranges)[i].ovf

(***************************************************************************)
(* Inputs.                                                                 *)
(***************************************************************************)
Cps == 1..MaxCp

DigitChar(n) == CHOOSE c \in DOMAIN DigitVal : DigitVal[c] = n

\* the tokens of the language files: "n", "a..b", and one that is no number
FileTokens ==
    {<<DigitChar(n)>> : n \in Cps}
    \cup {<<DigitChar(a), ".", ".", DigitChar(b)>> : a \in Cps, b \in Cps}
    \cup {<<"x">>}

\* what detect may be called with: any [u32; 2] pairs
InputRanges == {<<l, u>> : l \in Cps, u \in Cps}

Thresholds == {<<k, ThresholdDen>> : k \in 0..ThresholdDen}

\* the characters of the token-level specification
TokChars == {"1", "2", ".", "x"}

NotParsed == [ok |-> FALSE, lo |-> 0, hi |-> 0, done |-> FALSE]

(***************************************************************************)
(* The build: glob + parse_yaml per file, then main's totals and emit.     *)
(***************************************************************************)
Init ==
    /\ token = <<>>
    /\ parsed = NotParsed
    /\ pc = "glob"
    /\ languages = <<>>
    /\ RANGES = <<>>
    /\ TOTALS = <<>>
    /\ codepoints = <<>>
    /\ threshold = <<0, ThresholdDen>>
    /\ status = "idle"
    /\ result = <<>>

\* .map(parse_yaml).map(|language| language.expect(...)) for the next file
ReadLanguage ==
    /\ pc = "glob"
    /\ Len(languages) < MaxLanguages
    /\ \E toks \in SeqsUpTo(FileTokens, MaxTokens) :
          LET d == parse_yaml(toks)
          IN  IF d.ok
              THEN /\ languages' = Append(languages, d.codepoints)
                   /\ pc' = pc
              ELSE /\ languages' = languages
                   /\ pc' = "aborted"
    /\ UNCHANGED <<token, parsed, RANGES, TOTALS, codepoints, threshold, status, result>>

TotalsOverflow == \E i \in 1..Len(languages) : Total(languages[i]).ovf

\* main: ranges, totals, write data.rs (arithmetic wraps when the build
\* script is compiled without overflow checks)
Emit ==
    /\ pc = "glob"
    /\ RANGES' = languages
    /\ TOTALS' = [i \in 1..Len(languages) |-> Total(languages[i]).val]
    /\ pc' = "emitted"
    /\ UNCHANGED <<token, parsed, languages, codepoints, threshold, status, result>>

\* main with overflow checks: `c.1 - c.0 + 1` or the sum panics
EmitPanics ==
    /\ pc = "glob"
    /\ TotalsOverflow
    /\ pc' = "aborted"
    /\ UNCHANGED <<token, parsed, languages, RANGES, TOTALS, codepoints, threshold, status, result>>

(***************************************************************************)
(* The engine: one call of detect on the emitted tables.                   *)
(***************************************************************************)
Detect ==
    /\ pc = "emitted"
    /\ status = "idle"
    /\ \E cps \in SeqsUpTo(InputRanges, MaxInput), thr \in Thresholds :
          /\ codepoints' = cps
          /\ threshold' = thr
          /\ result' = detect(cps, thr, RANGES, TOTALS)
    /\ status' = "returned"
    /\ UNCHANGED <<token, parsed, pc, languages, RANGES, TOTALS>>

\* with overflow checks the first overflowing operation panics
DetectPanics ==
    /\ pc = "emitted"
    /\ status = "idle"
    /\ \E cps \in SeqsUpTo(InputRanges, MaxInput), thr \in Thresholds :
          /\ DetectOverflows(cps, RANGES)
          /\ codepoints' = cps
          /\ threshold' = thr
    /\ result' = <<>>
    /\ status' = "panicked"
    /\ UNCHANGED <<token, parsed, pc, languages, RANGES, TOTALS>>

\* the caller is done with the Vec<Match> (or has caught the panic); nothing
\* of the call is kept, and detect can be called again
Drop ==
    /\ status # "idle"
    /\ codepoints' = <<>>
    /\ threshold' = <<0, ThresholdDen>>
    /\ result' = <<>>
    /\ status' = "idle"
    /\ UNCHANGED <<token, parsed, pc, languages, RANGES, TOTALS>>

Next == ReadLanguage \/ Emit \/ EmitPanics \/ Detect \/ DetectPanics \/ Drop

Spec == Init /\ [][Next]_vars

(***************************************************************************)
(* Token level: Codepoint::deserialize applied to one arbitrary token.     *)
(***************************************************************************)
InitParse ==
    /\ token \in SeqsUpTo(TokChars, MaxTokLen)
    /\ parsed = NotParsed
    /\ pc = "parse"
    /\ languages = <<>>
    /\ RANGES = <<>>
    /\ TOTALS = <<>>
    /\ codepoints = <<>>
    /\ threshold = <<0, ThresholdDen>>
    /\ status = "idle"
    /\ result = <<>>

Deserialize ==
    /\ pc = "parse"
    /\ parsed' = [ok |-> deserialize(token).ok, lo |-> deserialize(token).lo,
                  hi |-> deserialize(token).hi, done |-> TRUE]
    /\ pc' = "parsed"
    /\ UNCHANGED <<token, languages, RANGES, TOTALS, codepoints, threshold, status, result>>

NextParse == Deserialize

SpecParse == InitParse /\ [][NextParse]_vars

(***************************************************************************)
(* Vocabulary of the properties.                                           *)
(***************************************************************************)
\* u32 comparison a <= b on representatives
U32Le(a, b) == IF (a < 0) = (b < 0) THEN a <= b ELSE b < 0

\* the caller precondition of detect: every range has lower <= upper, and the
\* ranges are pairwise disjoint and ascending
InputOk(cps) ==
    /\ \A k \in 1..Len(cps) : cps[k][1] <= cps[k][2]
    /\ \A k \in 1..(Len(cps) - 1) : cps[k][2] < cps[k + 1][1]

\* every range of the list has lower <= upper
WellFormed(rs) == \A k \in 1..Len(rs) : rs[k][1] <= rs[k][2]

\* no codepoint lies in two ranges of the list
Disjoint(rs) ==
    \A j \in 1..Len(rs), k \in 1..Len(rs) :
        j < k => (rs[j][2] < rs[k][1] \/ rs[k][2] < rs[j][1])

\* some codepoint lies in a range of as and in a range of bs
Shares(as, bs) ==
    \E j \in 1..Len(as), k \in 1..Len(bs), c \in Cps :
        /\ as[j][1] <= c /\ c <= as[j][2]
        /\ bs[k][1] <= c /\ c <= bs[k][2]

\* the reference count: every (input range, language range) pair that
\* intersects adds min(iu, ru) - max(il, rl) + 1
RECURSIVE SumOver(_, _)
SumOver(S, f) ==
    IF S = {} THEN 0
    ELSE LET x == CHOOSE y \in S : TRUE
         IN  f[x] + SumOver(S \ {x}, f)

NaiveCount(cps, rs) ==
    LET pairs == (1..Len(cps)) \X (1..Len(rs))
        f == [p \in pairs |->
                 IF cps[p[1]][1] <= rs[p[2]][2] /\ rs[p[2]][1] <= cps[p[1]][2]
                 THEN Min(cps[p[1]][2], rs[p[2]][2]) - Max(cps[p[1]][1], rs[p[2]][1]) + 1
                 ELSE 0]
    IN  SumOver(pairs, f)

Codes(ms) == {ms[k].code : k \in 1..Len(ms)}

One == [num |-> 1, den |-> 1]

Returned == pc = "emitted" /\ status = "returned"

(***************************************************************************)
(* Properties.                                                             *)
(***************************************************************************)

\* C1: detect never returns a Match whose score is below the threshold or
\* whose matched count is 0, whatever the input and the threshold; the score
\* of a Match is its count over its language's total.
C1_NoMatchBelowThresholdOrEmpty ==
    Returned =>
        \A k \in 1..Len(result) :
            /\ result[k].count # 0
            /\ result[k].score = [num |-> result[k].count, den |-> TOTALS[result[k].code]]
            /\ ~IsNaN(result[k].score)
            /\ F64Cmp(result[k].score, ThresholdValue(threshold)) >= 0

\* C1 witness: at threshold 0 a call with a non-empty input returned one of
\* two languages; the other matched nothing and was left out.
C1_Witness ==
    /\ Returned
    /\ threshold[1] = 0
    /\ codepoints # <<>>
    /\ Len(RANGES) = 2
    /\ Len(result) = 1
    /\ \E i \in 1..2 : i \notin Codes(result) /\ Counts(codepoints, RANGES)[i].val = 0

\* C2: the returned sequence is ordered by score descending: of two adjacent
\* matches the earlier one's score is greater than or equal to the later one's.
C2_SortedByScoreDescending ==
    Returned =>
        \A k \in 1..(Len(result) - 1) :
            F64Cmp(result[k].score, result[k + 1].score) >= 0

\* C2 witness: two matches with different scores came back, the second
\* language of the table first.
C2_Witness ==
    /\ Returned
    /\ Len(result) = 2
    /\ result[1].code = 2
    /\ result[2].code = 1
    /\ F64Cmp(result[1].score, result[2].score) > 0

\* C3: the filter is complete and inclusive: every language whose matched
\* count is greater than 0 and whose score is greater than or equal to the
\* threshold appears exactly once in the result.
C3_FilterCompleteAndInclusive ==
    Returned =>
        \A i \in 1..Len(RANGES) :
            LET c == Counts(codepoints, RANGES)[i].val
                sc == [num |-> c, den |-> TOTALS[i]]
            IN  (c # 0 /\ ~IsNaN(sc) /\ F64Cmp(sc, ThresholdValue(threshold)) >= 0)
                => Cardinality({k \in 1..Len(result) : result[k].code = i}) = 1

\* C3 witness: at threshold 1.0 a language whose matched count equals its
\* total was returned.
C3_Witness ==
    /\ Returned
    /\ threshold[1] = threshold[2]
    /\ \E k \in 1..Len(result) :
          /\ result[k].count = TOTALS[result[k].code]
          /\ result[k].count > 0

\* C4 as amended: for a language of the emitted table that has at least one
\* range, all with lower <= upper, a call of detect with the language's own
\* range list and threshold 1.0 that returns, returns that language with a
\* matched count of at least its total; the score is exactly 1.0 when the
\* language's ranges are pairwise disjoint.
C4_RoundTripAtLeastTotal ==
    (Returned /\ threshold[1] = threshold[2]) =>
        \A i \in 1..Len(RANGES) :
            (codepoints = RANGES[i] /\ RANGES[i] # <<>> /\ WellFormed(RANGES[i]))
            => \E k \in 1..Len(result) :
                  /\ result[k].code = i
                  /\ U32Le(TOTALS[i], result[k].count)
                  /\ Disjoint(RANGES[i]) => F64Cmp(result[k].score, One) = 0

\* C4 witness: a language with two overlapping ranges was given its own range
\* list at threshold 1.0 and came back with a count above its total.
C4_Witness ==
    /\ Returned
    /\ threshold[1] = threshold[2]
    /\ \E i \in 1..Len(RANGES) :
          /\ codepoints = RANGES[i]
          /\ Len(RANGES[i]) = 2
          /\ WellFormed(RANGES[i])
          /\ ~Disjoint(RANGES[i])
          /\ \E k \in 1..Len(result) :
                result[k].code = i /\ result[k].count > TOTALS[i]

\* C4 as claimed, on the languages that have at least one range and only
\* ranges with lower <= upper (overlaps within the language tolerated): the
\* round trip returns the language with score exactly 1.0.
C4_RoundTripScoreOne ==
    (Returned /\ threshold[1] = threshold[2]) =>
        \A i \in 1..Len(RANGES) :
            (codepoints = RANGES[i] /\ RANGES[i] # <<>> /\ WellFormed(RANGES[i]))
            => \E k \in 1..Len(result) :
                  result[k].code = i /\ F64Cmp(result[k].score, One) = 0

\* C5: for an input that satisfies the caller precondition, every returned
\* Match has a matched count of at most its language's total (score in [0,1]).
C5_CountAtMostTotal ==
    (Returned /\ InputOk(codepoints)) =>
        \A k \in 1..Len(result) :
            U32Le(result[k].count, TOTALS[result[k].code])

\* C6: every entry of the emitted table has total > 0.
C6_TotalsPositive ==
    pc = "emitted" => \A i \in 1..Len(TOTALS) : TOTALS[i] # 0

\* C7: a token is accepted only with exactly one bound (n, n) or exactly two
\* (a, b), and never with lower > upper.
C7_OnlyWellFormedTokensAccepted ==
    (pc = "parsed" /\ parsed.ok) =>
        /\ parsed.lo <= parsed.hi
        /\ ContainsSep(token) => Len(Split(token)) = 2

\* C8: at threshold 0 and for an input that satisfies the caller
\* precondition, a language is in the result if and only if some input range
\* shares a codepoint with one of the language's ranges.
C8_ReturnedIffSharesCodepoint ==
    (Returned /\ threshold[1] = 0 /\ InputOk(codepoints)) =>
        \A i \in 1..Len(RANGES) :
            (i \in Codes(result)) <=> Shares(codepoints, RANGES[i])

\* C9, on the tables whose ranges all have lower <= upper: for an input that
\* satisfies the caller precondition the matched count of every language
\* equals the count of the full double scan.
C9_EarlyExitEqualsFullScan ==
    (Returned /\ InputOk(codepoints) /\ \A i \in 1..Len(RANGES) : WellFormed(RANGES[i])) =>
        \A i \in 1..Len(RANGES) :
            Counts(codepoints, RANGES)[i].val = NaiveCount(codepoints, RANGES[i])

\* C10: two matches with equal score appear in the order of their languages
\* in the table.
C10_TiesInTableOrder ==
    Returned =>
        \A j \in 1..Len(result), k \in 1..Len(result) :
            (j < k /\ F64Cmp(result[j].score, result[k].score) = 0)
            => result[j].code < result[k].code

\* C10 witness: two languages came back with the same score.
C10_Witness ==
    /\ Returned
    /\ Len(result) = 2
    /\ F64Cmp(result[1].score, result[2].score) = 0
    /\ result[1].code = 1
    /\ result[2].code = 2

====
